---- MODULE Spec2Model ----
(***************************************************************************)
(* System Health Monitor (src/monitor.py): one invocation of main().       *)
(* The program is a single thread of control; a state of the model is the  *)
(* position of that thread (pc), the SystemMonitor object (config,         *)
(* alert_sent), the locals of run_once (stats, alerts), and a record of    *)
(* what the invocation has done so far (log lines written, console         *)
(* reports, dispatch attempts, files written, exit status).                *)
(*                                                                         *)
(* Percentages are fixed-point numbers in hundredths of a percent          *)
(* (92.3 % is 9230): psutil reports one decimal for cpu and memory and     *)
(* line 118 rounds the disk percentage to two.                             *)
(***************************************************************************)
EXTENDS Integers, Sequences, FiniteSets, TLC

VARIABLES
    pc,               \* position of the control thread
    args,             \* parsed command line: [once, json]
    loadOutcome,      \* what opening and parsing the config file did
    config,           \* self.config
    alert_sent,       \* self.alert_sent
    stats,            \* run_once: stats ({} is the empty function)
    alerts,           \* run_once: alerts
    log,              \* kinds of log lines written so far
    exitCode,         \* <<>> while running, <<n>> once main has returned n
    endCause,         \* "running", "normal", "interrupt" or "error"
    raisedAt,         \* pc at which the exception ending the run was raised
    cycle,            \* number of the current cycle (1 is the first)
    displayed,        \* display_stats calls of the current cycle
    dispatchAttempts, \* entries into the SMTP dispatch over the whole run
    sentOK,           \* dispatches that reached line 276 over the whole run
    lastDispatch,     \* outcome of the dispatch of the current cycle
    jsonWrites,       \* save_stats_json calls over the whole run
    snapshots,        \* cycles of the run that obtained a snapshot
    samplingFailed    \* cycles of the run whose sampling failed

vars == <<pc, args, loadOutcome, config, alert_sent, stats, alerts, log,
          exitCode, endCause, raisedAt, cycle, displayed, dispatchAttempts,
          sentOK, lastDispatch, jsonWrites, snapshots, samplingFailed>>

----------------------------------------------------------------------------
(* Bounds and program constants *)

MaxCycles == 3

Scale == 100

DefaultCpu == 80

DefaultMemory == 85

DefaultDisk == 90

DefaultInterval == 60

KeyboardInterrupt == "KeyboardInterrupt"

\* {} : the value get_system_stats returns when sampling fails
EmptyStats == <<>>

----------------------------------------------------------------------------
(* Configuration *)

_get_default_config ==
    [has_logging    |-> TRUE,
     has_thresholds |-> TRUE,
     thresholds     |-> [cpu |-> DefaultCpu, memory |-> DefaultMemory,
                         disk |-> DefaultDisk],
     has_interval   |-> TRUE,
     check_interval |-> DefaultInterval,
     has_email      |-> TRUE,
     enabled        |-> FALSE]

\* Threshold sections a parsed file may carry: the documented ones and a
\* lower custom set on which all three metrics can be exceeded at once.
ThresholdChoices ==
    {_get_default_config.thresholds, [cpu |-> 50, memory |-> 50, disk |-> 50]}

\* What yaml.safe_load can return: any document.  A section may be absent
\* (an empty file gives None, on which every section is absent); an absent
\* section carries the default's value so that it adds no states.
ParsedConfigs ==
    {c \in [has_logging    : BOOLEAN,
            has_thresholds : BOOLEAN,
            thresholds     : ThresholdChoices,
            has_interval   : BOOLEAN,
            check_interval : {DefaultInterval, -1},
            has_email      : BOOLEAN,
            enabled        : BOOLEAN] :
        /\ ~c.has_thresholds => c.thresholds = _get_default_config.thresholds
        /\ ~c.has_interval => c.check_interval = DefaultInterval
        /\ ~c.has_email => ~c.enabled}

\* Outcomes of open() + yaml.safe_load()
LoadOutcomes == {"parsed", "FileNotFoundError", "YAMLError", "PermissionError"}

\* the except clauses of _load_config
_load_config_catches(e) == e \in {"FileNotFoundError", "YAMLError"}

\* `except Exception` catches everything but KeyboardInterrupt
IsException(e) == e # KeyboardInterrupt

----------------------------------------------------------------------------
(* Snapshots and threshold evaluation *)

CpuSamples == {5000, 8000, 8010}

MemorySamples == {5000, 8500, 8510}

DiskSamples == {5000, 9000, 9001}

Snapshots == [cpu : CpuSamples, memory : MemorySamples, disk : DiskSamples]

Violation(metric, percent, threshold) ==
    [metric |-> metric, percent |-> percent, threshold |-> threshold]

\* stats[m]['percent'] > thresholds[m], the threshold being in percent
Exceeds(percent, threshold) == percent > threshold * Scale

check_thresholds_ge(st, th) ==
    LET a1 == IF st.cpu >= th.cpu * Scale
              THEN <<Violation("CPU", st.cpu, th.cpu)>> ELSE <<>>
        a2 == IF Exceeds(st.memory, th.memory)
              THEN Append(a1, Violation("Memory", st.memory, th.memory)) ELSE a1
    IN  IF Exceeds(st.disk, th.disk)
        THEN Append(a2, Violation("Disk", st.disk, th.disk)) ELSE a2

check_thresholds(st, th) ==
    LET a0 == <<>>
        a1 == IF Exceeds(st.cpu, th.cpu)
              THEN Append(a0, Violation("CPU", st.cpu, th.cpu)) ELSE a0
        a2 == IF Exceeds(st.memory, th.memory)
              THEN Append(a1, Violation("Memory", st.memory, th.memory)) ELSE a1
        a3 == IF Exceeds(st.disk, th.disk)
              THEN Append(a2, Violation("Disk", st.disk, th.disk)) ELSE a2
    IN  a3

----------------------------------------------------------------------------
(* Exception handlers *)

catches_nothing(e) == FALSE

\* `except Exception` of get_system_stats
get_system_stats_catches(e) == IsException(e)

\* `except Exception` of send_alert
send_alert_catches(e) == IsException(e)

\* `except Exception` of save_stats_json
save_stats_json_catches(e) == IsException(e)

LoopPcs ==
    {"sample", "evaluate", "report", "gate", "dispatch", "cycle_log", "sleep"}

\* the pc lies inside the try block of run_monitoring
InLoopTry == ~args.once /\ pc \in LoopPcs

\* the except clauses of run_monitoring: what is logged, and whether the
\* exception is raised again
run_monitoring_except(e) ==
    IF e = KeyboardInterrupt
    THEN [logged |-> "stopped_by_user", reraise |-> FALSE]
    ELSE [logged |-> "monitoring_error", reraise |-> TRUE]

main_except_one(e) == 1

\* the except clauses of main: the value main returns
main_except(e) == IF e = KeyboardInterrupt THEN 0 ELSE 1

\* An exception e that no handler of the current function catches unwinds
\* through run_monitoring's try (when the pc is inside it) and main's try.
Unwind(e, lg) ==
    LET h == run_monitoring_except(e)
    IN  /\ pc' = "exit"
        /\ log' = IF InLoopTry THEN lg \cup {h.logged} ELSE lg
        /\ exitCode' = IF InLoopTry /\ ~h.reraise THEN <<0>> ELSE <<main_except(e)>>
        /\ endCause' = IF e = KeyboardInterrupt THEN "interrupt" ELSE "error"
        /\ raisedAt' = pc

\* where control goes when run_once returns
AfterRunOnce == IF args.once THEN "save_json" ELSE "cycle_log"

----------------------------------------------------------------------------
(* The notification gate and latch of send_alert *)

send_alert_gate_no_enabled(al, cfg, sent) == al # <<>> /\ ~sent

send_alert_gate_no_latch(al, cfg, sent) == al # <<>> /\ cfg.enabled

\* lines 225-230: the dispatch is entered only past both early returns
send_alert_gate(al, cfg, sent) == al # <<>> /\ cfg.enabled /\ ~sent

alert_sent_after_any(r, sent) == TRUE

\* line 277 is reached only when the whole SMTP exchange raised nothing
alert_sent_after(r, sent) == IF r = "ok" THEN TRUE ELSE sent

\* where the SMTP exchange of lines 270-274 can fail
DispatchResults == {"ok", "ConnectionRefusedError", "SMTPAuthenticationError"}

SamplingErrors == {"psutil.Error"}

SaveResults == {"ok", "OSError"}

display_stats_if_alerts(d, st, al) ==
    IF al # <<>> THEN Append(d, [stats |-> st, alerts |-> al]) ELSE d

\* one console report of the snapshot and its violation list
display_stats(d, st, al) == Append(d, [stats |-> st, alerts |-> al])

----------------------------------------------------------------------------
(* The invocation *)

\* The monitor object before __init__ has run: no configuration section is
\* there yet (the attributes do not exist; alert_sent is written as FALSE).
Unloaded ==
    [has_logging |-> FALSE, has_thresholds |-> FALSE,
     thresholds |-> _get_default_config.thresholds,
     has_interval |-> FALSE, check_interval |-> DefaultInterval,
     has_email |-> FALSE, enabled |-> FALSE]

\* main has parsed the command line and is about to construct the monitor
Init ==
    /\ pc = "load_config"
    /\ args \in [once : BOOLEAN, json : BOOLEAN]
    /\ loadOutcome = "none"
    /\ config = Unloaded
    /\ alert_sent = FALSE
    /\ stats = EmptyStats
    /\ alerts = <<>>
    /\ log = {}
    /\ exitCode = <<>>
    /\ endCause = "running"
    /\ raisedAt = "none"
    /\ cycle = 0
    /\ displayed = <<>>
    /\ dispatchAttempts = 0
    /\ sentOK = 0
    /\ lastDispatch = "none"
    /\ jsonWrites = 0
    /\ snapshots = 0
    /\ samplingFailed = 0

\* SystemMonitor.__init__, line 42: self.config = self._load_config()
LoadConfig ==
    /\ pc = "load_config"
    /\ \E o \in LoadOutcomes :
        /\ loadOutcome' = o
        /\ IF o = "parsed"
           THEN /\ \E c \in ParsedConfigs : config' = c
                /\ pc' = "setup_logging"
                /\ UNCHANGED <<log, exitCode, endCause, raisedAt>>
           ELSE IF _load_config_catches(o)
           THEN /\ config' = _get_default_config
                /\ pc' = "setup_logging"
                /\ UNCHANGED <<log, exitCode, endCause, raisedAt>>
           ELSE /\ Unwind(o, log)
                /\ UNCHANGED config
    /\ UNCHANGED <<args, alert_sent, stats, alerts, cycle, displayed,
                   dispatchAttempts, sentOK, lastDispatch, jsonWrites,
                   snapshots, samplingFailed>>

\* SystemMonitor.__init__, lines 43-44, then the branch of main on args.once
SetupLogging ==
    /\ pc = "setup_logging"
    /\ IF config.has_logging
       THEN /\ alert_sent' = FALSE
            /\ pc' = IF args.once THEN "sample" ELSE "mon_start"
            /\ UNCHANGED <<log, exitCode, endCause, raisedAt>>
       ELSE /\ Unwind("KeyError", log)
            /\ UNCHANGED alert_sent
    /\ UNCHANGED <<args, loadOutcome, config, stats, alerts, cycle, displayed,
                   dispatchAttempts, sentOK, lastDispatch, jsonWrites,
                   snapshots, samplingFailed>>

\* run_monitoring, lines 368-372: the startup log lines, outside the try
MonStart ==
    /\ pc = "mon_start"
    /\ IF config.has_interval /\ config.has_thresholds
       THEN /\ log' = log \cup {"starting"}
            /\ pc' = "sample"
            /\ UNCHANGED <<exitCode, endCause, raisedAt>>
       ELSE Unwind("KeyError", log \cup {"starting"})
    /\ UNCHANGED <<args, loadOutcome, config, alert_sent, stats, alerts, cycle,
                   displayed, dispatchAttempts, sentOK, lastDispatch,
                   jsonWrites, snapshots, samplingFailed>>

\* run_once, line 353: get_system_stats returns a snapshot
Sample ==
    /\ pc = "sample"
    /\ cycle < MaxCycles
    /\ \E s \in Snapshots : stats' = s
    /\ cycle' = cycle + 1
    /\ snapshots' = snapshots + 1
    /\ alerts' = <<>>
    /\ displayed' = <<>>
    /\ lastDispatch' = "none"
    /\ pc' = "evaluate"
    /\ UNCHANGED <<args, loadOutcome, config, alert_sent, log, exitCode,
                   endCause, raisedAt, dispatchAttempts, sentOK, jsonWrites,
                   samplingFailed>>

\* run_once, lines 353-355: the metrics provider raises inside
\* get_system_stats
SampleFails ==
    /\ pc = "sample"
    /\ cycle < MaxCycles
    /\ cycle' = cycle + 1
    /\ samplingFailed' = samplingFailed + 1
    /\ stats' = EmptyStats
    /\ alerts' = <<>>
    /\ displayed' = <<>>
    /\ lastDispatch' = "none"
    /\ \E e \in SamplingErrors :
        IF get_system_stats_catches(e)
        THEN /\ log' = log \cup {"stats_error"}
             /\ pc' = AfterRunOnce
             /\ UNCHANGED <<exitCode, endCause, raisedAt>>
        ELSE Unwind(e, log)
    /\ UNCHANGED <<args, loadOutcome, config, alert_sent, dispatchAttempts,
                   sentOK, jsonWrites, snapshots>>

\* run_once, line 357
Evaluate ==
    /\ pc = "evaluate"
    /\ IF config.has_thresholds
       THEN /\ alerts' = check_thresholds(stats, config.thresholds)
            /\ pc' = "report"
            /\ UNCHANGED <<log, exitCode, endCause, raisedAt>>
       ELSE /\ Unwind("KeyError", log)
            /\ UNCHANGED alerts
    /\ UNCHANGED <<args, loadOutcome, config, alert_sent, stats, cycle,
                   displayed, dispatchAttempts, sentOK, lastDispatch,
                   jsonWrites, snapshots, samplingFailed>>

\* run_once, line 358
Report ==
    /\ pc = "report"
    /\ displayed' = display_stats(displayed, stats, alerts)
    /\ pc' = "gate"
    /\ UNCHANGED <<args, loadOutcome, config, alert_sent, stats, alerts, log,
                   exitCode, endCause, raisedAt, cycle, dispatchAttempts,
                   sentOK, lastDispatch, jsonWrites, snapshots, samplingFailed>>

\* run_once, lines 360-362, and the early returns of send_alert, lines 225-230
Gate ==
    /\ pc = "gate"
    /\ IF alerts = <<>>
       THEN /\ pc' = AfterRunOnce
            /\ UNCHANGED <<log, exitCode, endCause, raisedAt>>
       ELSE IF ~config.has_email
       THEN Unwind("KeyError", log \cup {"alerts_triggered"})
       ELSE /\ log' = log \cup {"alerts_triggered"}
            /\ pc' = IF send_alert_gate(alerts, config, alert_sent)
                     THEN "dispatch" ELSE AfterRunOnce
            /\ UNCHANGED <<exitCode, endCause, raisedAt>>
    /\ UNCHANGED <<args, loadOutcome, config, alert_sent, stats, alerts, cycle,
                   displayed, dispatchAttempts, sentOK, lastDispatch,
                   jsonWrites, snapshots, samplingFailed>>

\* send_alert, lines 232-280: compose the message and run the SMTP exchange
Dispatch ==
    /\ pc = "dispatch"
    /\ dispatchAttempts' = dispatchAttempts + 1
    /\ \E r \in DispatchResults :
        /\ alert_sent' = alert_sent_after(r, alert_sent)
        /\ IF r = "ok"
           THEN /\ sentOK' = sentOK + 1
                /\ lastDispatch' = "ok"
                /\ log' = log \cup {"email_sent"}
                /\ pc' = AfterRunOnce
                /\ UNCHANGED <<exitCode, endCause, raisedAt>>
           ELSE /\ sentOK' = sentOK
                /\ lastDispatch' = "failed"
                /\ IF send_alert_catches(r)
                   THEN /\ log' = log \cup {"email_failed"}
                        /\ pc' = AfterRunOnce
                        /\ UNCHANGED <<exitCode, endCause, raisedAt>>
                   ELSE Unwind(r, log)
    /\ UNCHANGED <<args, loadOutcome, config, stats, alerts, cycle, displayed,
                   jsonWrites, snapshots, samplingFailed>>

\* run_monitoring, lines 378-384: the cycle summary, logged when run_once
\* returned a snapshot
CycleLog ==
    /\ pc = "cycle_log"
    /\ log' = IF stats # EmptyStats THEN log \cup {"cycle_summary"} ELSE log
    /\ pc' = "sleep"
    /\ UNCHANGED <<args, loadOutcome, config, alert_sent, stats, alerts,
                   exitCode, endCause, raisedAt, cycle, displayed,
                   dispatchAttempts, sentOK, lastDispatch, jsonWrites,
                   snapshots, samplingFailed>>

\* run_monitoring, line 386: time.sleep raises ValueError on a negative
\* interval
Sleep ==
    /\ pc = "sleep"
    /\ IF config.check_interval >= 0
       THEN /\ pc' = "sample"
            /\ UNCHANGED <<log, exitCode, endCause, raisedAt>>
       ELSE Unwind("ValueError", log)
    /\ UNCHANGED <<args, loadOutcome, config, alert_sent, stats, alerts, cycle,
                   displayed, dispatchAttempts, sentOK, lastDispatch,
                   jsonWrites, snapshots, samplingFailed>>

\* main, lines 441-442 and 453: the optional save of single-cycle mode, then
\* return 0
SaveJson ==
    /\ pc = "save_json"
    /\ IF args.json /\ stats # EmptyStats
       THEN /\ jsonWrites' = jsonWrites + 1
            /\ \E r \in SaveResults :
                IF r = "ok"
                THEN /\ log' = log \cup {"stats_saved"}
                     /\ pc' = "exit"
                     /\ exitCode' = <<0>>
                     /\ endCause' = "normal"
                     /\ UNCHANGED raisedAt
                ELSE IF save_stats_json_catches(r)
                THEN /\ log' = log \cup {"save_failed"}
                     /\ pc' = "exit"
                     /\ exitCode' = <<0>>
                     /\ endCause' = "normal"
                     /\ UNCHANGED raisedAt
                ELSE Unwind(r, log)
       ELSE /\ pc' = "exit"
            /\ exitCode' = <<0>>
            /\ endCause' = "normal"
            /\ UNCHANGED <<jsonWrites, log, raisedAt>>
    /\ UNCHANGED <<args, loadOutcome, config, alert_sent, stats, alerts, cycle,
                   displayed, dispatchAttempts, sentOK, lastDispatch,
                   snapshots, samplingFailed>>

\* an interrupt signal: KeyboardInterrupt is raised at the current statement
Interrupt ==
    /\ pc # "exit"
    /\ Unwind(KeyboardInterrupt, log)
    /\ UNCHANGED <<args, loadOutcome, config, alert_sent, stats, alerts, cycle,
                   displayed, dispatchAttempts, sentOK, lastDispatch,
                   jsonWrites, snapshots, samplingFailed>>

Next ==
    \/ LoadConfig
    \/ SetupLogging
    \/ MonStart
    \/ Sample
    \/ SampleFails
    \/ Evaluate
    \/ Report
    \/ Gate
    \/ Dispatch
    \/ CycleLog
    \/ Sleep
    \/ SaveJson
    \/ Interrupt

Spec == Init /\ [][Next]_vars

----------------------------------------------------------------------------
(* Properties *)

GateOpen ==
    alerts # <<>> /\ config.has_email /\ config.enabled /\ ~alert_sent

ThisReport == [stats |-> stats, alerts |-> alerts]

MetricRank(m) == CASE m = "CPU" -> 1 [] m = "Memory" -> 2 [] m = "Disk" -> 3

ViolationsOf(m) == {i \in DOMAIN alerts : alerts[i].metric = m}

\* C1 (as claimed): over a whole run a dispatch is attempted at most once,
\* and the first attempt sets alert_sent whether it succeeds or fails.
C1_AttemptedAtMostOnce ==
    /\ dispatchAttempts <= 1
    /\ dispatchAttempts >= 1 => alert_sent

\* C1 (amended): at most one dispatch of a run succeeds; the successful
\* dispatch sets alert_sent and no dispatch is attempted while alert_sent is
\* true; a failed dispatch leaves alert_sent false, so that a later cycle
\* with violations attempts a dispatch again.
C1_AtMostOneSuccessfulDispatch ==
    /\ [](sentOK <= 1)
    /\ [][alert_sent => dispatchAttempts' = dispatchAttempts]_vars
    /\ [][dispatchAttempts' # dispatchAttempts
            => alert_sent' = (lastDispatch' = "ok")]_vars

\* a failed dispatch in one cycle, a second and successful one in a later cycle
C1_Witness ==
    dispatchAttempts = 2 /\ sentOK = 1 /\ alert_sent /\ pc = "sleep"

\* C2: a dispatch is attempted only in a cycle whose violation list is
\* non-empty, with email.enabled true and alert_sent false; with
\* email.enabled false no dispatch is attempted in any cycle.
C2_DispatchOnlyThroughGate ==
    /\ [][dispatchAttempts' # dispatchAttempts => GateOpen]_vars
    /\ [](pc = "dispatch" => GateOpen)
    /\ [](~config.enabled => dispatchAttempts = 0)

\* a dispatch has just been attempted in the first cycle
C2_Witness ==
    /\ lastDispatch # "none" /\ cycle = 1 /\ dispatchAttempts = 1
    /\ alerts # <<>> /\ config.enabled

\* C3 (as claimed): in continuous mode a sampling failure ends the loop with
\* a non-zero exit status.
C3_SamplingFailureEndsLoop ==
    (~args.once /\ samplingFailed > 0) => (pc = "exit" /\ exitCode = <<1>>)

\* C3 (amended): in continuous mode a sampling failure is caught and logged
\* inside get_system_stats; the cycle has no snapshot, so it runs no
\* evaluation, report or notification; run_once returns to the loop, which
\* goes on to the inter-cycle sleep, and the run has not ended.
C3_SamplingFailureSkipsCycle ==
    /\ [][(~args.once /\ samplingFailed' # samplingFailed)
            => /\ pc' = "cycle_log"
               /\ stats' = EmptyStats
               /\ "stats_error" \in log'
               /\ exitCode' = <<>>
               /\ endCause' = "running"]_vars
    /\ [](pc \in {"evaluate", "report", "gate", "dispatch"} => stats # EmptyStats)
    /\ [](endCause = "error" => raisedAt # "sample")

\* the first cycle's sampling failed and the second cycle has sampled
C3_Witness ==
    /\ ~args.once /\ cycle = 2 /\ samplingFailed = 1 /\ snapshots = 1
    /\ pc = "evaluate" /\ "cycle_summary" \notin log

\* C4: check_thresholds returns, for each of CPU, memory and disk, exactly
\* one violation when the percent is strictly greater than the threshold and
\* none otherwise, and the violations are in the order CPU, Memory, Disk.
C4_ThresholdEvaluation ==
    pc \in {"report", "gate", "dispatch"} =>
        /\ Cardinality(ViolationsOf("CPU")) =
              IF stats.cpu > config.thresholds.cpu * Scale THEN 1 ELSE 0
        /\ Cardinality(ViolationsOf("Memory")) =
              IF stats.memory > config.thresholds.memory * Scale THEN 1 ELSE 0
        /\ Cardinality(ViolationsOf("Disk")) =
              IF stats.disk > config.thresholds.disk * Scale THEN 1 ELSE 0
        /\ \A i \in DOMAIN alerts : alerts[i].metric \in {"CPU", "Memory", "Disk"}
        /\ \A i, j \in DOMAIN alerts :
              i < j => MetricRank(alerts[i].metric) < MetricRank(alerts[j].metric)

\* CPU and disk exceed, memory is exactly at its threshold
C4_Witness ==
    /\ pc = "gate"
    /\ stats.memory = config.thresholds.memory * Scale
    /\ Len(alerts) = 2
    /\ alerts[1].metric = "CPU" /\ alerts[2].metric = "Disk"

\* C5: a dispatch failure is caught and logged inside send_alert: run_once
\* returns normally to its caller (in continuous mode, to the inter-cycle
\* sleep), the run has not ended, and no run ends with an error raised by
\* the dispatch.
C5_DispatchFailureContained ==
    /\ [][(pc = "dispatch" /\ lastDispatch' = "failed")
            => /\ pc' = AfterRunOnce
               /\ "email_failed" \in log'
               /\ exitCode' = <<>>
               /\ endCause' = "running"]_vars
    /\ [](endCause = "error" => raisedAt # "dispatch")

\* the first cycle's dispatch failed and the second cycle has sampled
C5_Witness ==
    /\ ~args.once /\ cycle = 2 /\ pc = "evaluate"
    /\ dispatchAttempts = 1 /\ sentOK = 0 /\ "email_failed" \in log

\* the positions inside run_monitoring
MonitoringPcs == {"mon_start"} \cup LoopPcs

ExitCodeMatchesCause ==
    /\ endCause \in {"normal", "interrupt"} => exitCode = <<0>>
    /\ endCause = "error" => exitCode = <<1>>

\* C6 (as claimed): exit status 0 on normal or interrupted completion and
\* non-zero on an error, and an interrupt anywhere in continuous mode leads
\* to the logged shutdown.
C6_InterruptAlwaysLogged ==
    pc = "exit" =>
        /\ ExitCodeMatchesCause
        /\ (endCause = "interrupt" /\ ~args.once /\ raisedAt \in MonitoringPcs)
              => "stopped_by_user" \in log

\* C6 (amended): exit status 0 on normal or interrupted completion and
\* non-zero on an error; an interrupt raised inside the loop of continuous
\* mode (during a cycle or the sleep) leads to the logged shutdown, one
\* raised during construction or the startup log lines of run_monitoring
\* is handled by main alone, with exit status 0 and no logged shutdown.
C6_ExitCodes ==
    pc = "exit" =>
        /\ ExitCodeMatchesCause
        /\ endCause = "interrupt" =>
              ("stopped_by_user" \in log <=> (~args.once /\ raisedAt \in LoopPcs))

\* an interrupt during the sleep of continuous mode
C6_Witness ==
    /\ pc = "exit" /\ endCause = "interrupt" /\ raisedAt = "sleep"
    /\ "stopped_by_user" \in log /\ exitCode = <<0>>

ConfigComplete(c) ==
    c.has_logging /\ c.has_thresholds /\ c.has_interval /\ c.has_email

\* C7 (as claimed): loading the configuration never fails the startup; a
\* missing or unparsable file gives the default configuration, and whatever
\* reading the file gave, the configuration is complete.
C7_ConfigNeverFailsStartup ==
    /\ endCause = "error" => raisedAt \notin {"load_config", "setup_logging"}
    /\ loadOutcome \in {"FileNotFoundError", "YAMLError"}
          => config = _get_default_config
    /\ (loadOutcome # "none" /\ pc # "exit") => ConfigComplete(config)

\* C8: a cycle that has a snapshot reports it exactly once, with its
\* violation list, whether or not the list is empty, after the evaluation
\* and before any dispatch of the cycle.
C8_ReportOnceBeforeDispatch ==
    /\ Len(displayed) <= 1
    /\ pc \in {"evaluate", "report"} => displayed = <<>>
    /\ pc \in {"gate", "dispatch"} =>
          /\ displayed = <<ThisReport>>
          /\ alerts = check_thresholds(stats, config.thresholds)
    /\ (pc \in {"cycle_log", "sleep", "save_json"} /\ stats # EmptyStats)
          => displayed = <<ThisReport>>
    /\ lastDispatch # "none" => Len(displayed) = 1

\* a cycle without violations has completed and was reported
C8_Witness ==
    /\ pc = "sleep" /\ stats # EmptyStats /\ alerts = <<>>
    /\ displayed = <<ThisReport>>

\* C9 (as claimed): an invocation with an output file requested, in which a
\* cycle has completed with a snapshot, has written it exactly once when it
\* ends, in single-cycle and continuous mode alike; a failed write leaves
\* the exit status 0.
C9_JsonWrittenOnce ==
    LET cycleCompleted ==
            IF args.once
            THEN endCause = "normal" /\ stats # EmptyStats
            ELSE "cycle_summary" \in log
    IN  /\ jsonWrites <= 1
        /\ (pc = "exit" /\ args.json /\ cycleCompleted) => jsonWrites = 1
        /\ (pc = "exit" /\ "save_failed" \in log) => exitCode = <<0>>

====
